---- MODULE Spec2Model ----
(***************************************************************************)
(* The singleton Logger of src/singleton: Logger::getLogger() (hand-written *)
(* double-checked locking over the plain static pointer loggerInstance and *)
(* the static mutex mtx), Logger::Logger(), Logger::Log(), and the threads *)
(* of user.cpp that call getLogger() and then Log().                       *)
(*                                                                         *)
(* One action per statement of the code.  std::cout is modelled as the     *)
(* sequence of the insertions (one operator<< call each) made on it.       *)
(*                                                                         *)
(* loggerInstance is a plain pointer that is read at logger.cpp:17 and :24 *)
(* without the lock while logger.cpp:20 writes it: a data race.  The       *)
(* outcomes modelled are the two orders in which the store of the pointer  *)
(* and the effects of the constructor become visible to the other threads: *)
(* in program order (Store) or the pointer first (EarlyStore).             *)
(***************************************************************************)
EXTENDS Integers, Sequences, FiniteSets, TLC

\* Bounds of the model.
NumThreads == 2
MaxCalls == 1
MaxFailures == 1

Threads == 1..NumThreads

\* nullptr, the unlocked mutex, and a local pointer that is not initialised yet.
Null == 0
Free == 0
NoHandle == -1

VARIABLES
  loggerInstance,  \* Logger::loggerInstance: Null or the id of a Logger object
  mtx,             \* Logger::mtx: Free or the thread that owns it
  objs,            \* the heap: objs[i] is the state of the i-th Logger allocated
  out,             \* std::cout: the insertions made so far
  pc,              \* pc[t]: where thread t is
  first,           \* first[t]: what t read at logger.cpp:17 in its current call
  tmp,             \* tmp[t]: the result of operator new in logger.cpp:20
  logger,          \* logger[t]: the local logger1 / logger2 of user.cpp
  calls,           \* calls[t]: calls of getLogger() t has started
  failures         \* allocations that raised std::bad_alloc

vars == <<loggerInstance, mtx, objs, out, pc, first, tmp, logger, calls, failures>>

\* The texts inserted into std::cout.
CreatedText == "New instance created."
LineBreak == "\n"
Message(t) == "message from user" \o ToString(t)

Init ==
  /\ loggerInstance = Null
  /\ mtx = Free
  /\ objs = <<>>
  /\ out = <<>>
  /\ pc = [t \in Threads |-> "idle"]
  /\ first = [t \in Threads |-> Null]
  /\ tmp = [t \in Threads |-> Null]
  /\ logger = [t \in Threads |-> NoHandle]
  /\ calls = [t \in Threads |-> 0]
  /\ failures = 0

\* user.cpp:7 / :12, the thread calls Logger::getLogger().
Start(t) ==
  /\ pc[t] = "idle"
  /\ calls[t] < MaxCalls
  /\ calls' = [calls EXCEPT ![t] = @ + 1]
  /\ pc' = [pc EXCEPT ![t] = "check1"]
  /\ UNCHANGED <<loggerInstance, mtx, objs, out, first, tmp, logger, failures>>

\* A mutant of Check1: the lock is taken whatever the first read found.
Check1AlwaysLock(t) ==
  /\ pc[t] = "check1"
  /\ first' = [first EXCEPT ![t] = loggerInstance]
  /\ pc' = [pc EXCEPT ![t] = "lock"]
  /\ UNCHANGED <<loggerInstance, mtx, objs, out, tmp, logger, calls, failures>>

\* logger.cpp:17, if (loggerInstance == nullptr), read without the lock.
Check1(t) ==
  /\ pc[t] = "check1"
  /\ first' = [first EXCEPT ![t] = loggerInstance]
  /\ pc' = [pc EXCEPT ![t] = IF loggerInstance = Null THEN "lock" ELSE "ret"]
  /\ UNCHANGED <<loggerInstance, mtx, objs, out, tmp, logger, calls, failures>>

\* A mutant of Lock: the mutex does not exclude.
LockNoExclusion(t) ==
  /\ pc[t] = "lock"
  /\ mtx' = t
  /\ pc' = [pc EXCEPT ![t] = "check2"]
  /\ UNCHANGED <<loggerInstance, objs, out, first, tmp, logger, calls, failures>>

\* logger.cpp:18, mtx.lock(): blocks until the mutex is free.
Lock(t) ==
  /\ pc[t] = "lock"
  /\ mtx = Free
  /\ mtx' = t
  /\ pc' = [pc EXCEPT ![t] = "check2"]
  /\ UNCHANGED <<loggerInstance, objs, out, first, tmp, logger, calls, failures>>

\* A mutant of Check2: no second check, the holder of the lock always constructs.
Check2NoRecheck(t) ==
  /\ pc[t] = "check2"
  /\ pc' = [pc EXCEPT ![t] = "new"]
  /\ UNCHANGED <<loggerInstance, mtx, objs, out, first, tmp, logger, calls, failures>>

\* logger.cpp:19, if (loggerInstance == nullptr), read under the lock.
Check2(t) ==
  /\ pc[t] = "check2"
  /\ pc' = [pc EXCEPT ![t] = IF loggerInstance = Null THEN "new" ELSE "unlock"]
  /\ UNCHANGED <<loggerInstance, mtx, objs, out, first, tmp, logger, calls, failures>>

\* logger.cpp:20, new Logger(): operator new returns the storage of a new object.
Alloc(t) ==
  /\ pc[t] = "new"
  /\ objs' = Append(objs, "raw")
  /\ tmp' = [tmp EXCEPT ![t] = Len(objs) + 1]
  /\ pc' = [pc EXCEPT ![t] = "ctor1"]
  /\ UNCHANGED <<loggerInstance, mtx, out, first, logger, calls, failures>>

\* logger.cpp:20, new Logger(): operator new raises std::bad_alloc.  The
\* exception leaves getLogger(), no statement of logger.cpp:15-25 runs after it,
\* and it leaves user1Logs / user2Logs too: the thread makes no further call.
AllocFail(t) ==
  /\ pc[t] = "new"
  /\ failures < MaxFailures
  /\ failures' = failures + 1
  /\ pc' = [pc EXCEPT ![t] = "thrown"]
  /\ UNCHANGED <<loggerInstance, mtx, objs, out, first, tmp, logger, calls>>

\* logger.cpp:9, Logger::Logger(): cout << "New instance created."
Ctor1(t) ==
  /\ pc[t] = "ctor1"
  /\ objs' = [objs EXCEPT ![tmp[t]] = "constructing"]
  /\ out' = Append(out, CreatedText)
  /\ pc' = [pc EXCEPT ![t] = "ctor2"]
  /\ UNCHANGED <<loggerInstance, mtx, first, tmp, logger, calls, failures>>

\* logger.cpp:10-11, Logger::Logger(): << "\n", and the constructor returns.
Ctor2(t) ==
  /\ pc[t] = "ctor2"
  /\ objs' = [objs EXCEPT ![tmp[t]] = "constructed"]
  /\ out' = Append(out, LineBreak)
  /\ pc' = [pc EXCEPT ![t] = "store"]
  /\ UNCHANGED <<loggerInstance, mtx, first, tmp, logger, calls, failures>>

\* logger.cpp:20, the store to the plain pointer loggerInstance becomes visible
\* to the other threads before the constructor has finished (the data race with
\* the unlocked reads of logger.cpp:17 and :24).
EarlyStore(t) ==
  /\ pc[t] \in {"ctor1", "ctor2"}
  /\ loggerInstance # tmp[t]
  /\ loggerInstance' = tmp[t]
  /\ UNCHANGED <<mtx, objs, out, pc, first, tmp, logger, calls, failures>>

\* A mutant of Store: the assignment is lost.
StoreLost(t) ==
  /\ pc[t] = "store"
  /\ pc' = [pc EXCEPT ![t] = "unlock"]
  /\ UNCHANGED <<loggerInstance, mtx, objs, out, first, tmp, logger, calls, failures>>

\* logger.cpp:20, loggerInstance = <the new object>, in program order.
Store(t) ==
  /\ pc[t] = "store"
  /\ loggerInstance' = tmp[t]
  /\ pc' = [pc EXCEPT ![t] = "unlock"]
  /\ UNCHANGED <<mtx, objs, out, first, tmp, logger, calls, failures>>

\* A mutant of Unlock: the mutex is not released.
UnlockForgotten(t) ==
  /\ pc[t] = "unlock"
  /\ pc' = [pc EXCEPT ![t] = "ret"]
  /\ UNCHANGED <<loggerInstance, mtx, objs, out, first, tmp, logger, calls, failures>>

\* logger.cpp:22, mtx.unlock().
Unlock(t) ==
  /\ pc[t] = "unlock"
  /\ mtx' = Free
  /\ pc' = [pc EXCEPT ![t] = "ret"]
  /\ UNCHANGED <<loggerInstance, objs, out, first, tmp, logger, calls, failures>>

\* A mutant of Return: the pointer of the caller's own allocation is returned
\* instead of the slot.
ReturnLocal(t) ==
  /\ pc[t] = "ret"
  /\ logger' = [logger EXCEPT ![t] = tmp[t]]
  /\ pc' = [pc EXCEPT ![t] = "log1"]
  /\ UNCHANGED <<loggerInstance, mtx, objs, out, first, tmp, calls, failures>>

\* logger.cpp:24, return loggerInstance (read without the lock), assigned to
\* logger1 / logger2 at user.cpp:7 / :12.
Return(t) ==
  /\ pc[t] = "ret"
  /\ logger' = [logger EXCEPT ![t] = loggerInstance]
  /\ pc' = [pc EXCEPT ![t] = "log1"]
  /\ UNCHANGED <<loggerInstance, mtx, objs, out, first, tmp, calls, failures>>

\* logger.cpp:13, Logger::Log(): cout << message.
Log1(t) ==
  /\ pc[t] = "log1"
  /\ out' = Append(out, Message(t))
  /\ pc' = [pc EXCEPT ![t] = "log2"]
  /\ UNCHANGED <<loggerInstance, mtx, objs, first, tmp, logger, calls, failures>>

\* logger.cpp:13, Logger::Log(): << "\n", and the call returns.
Log2(t) ==
  /\ pc[t] = "log2"
  /\ out' = Append(out, LineBreak)
  /\ pc' = [pc EXCEPT ![t] = "idle"]
  /\ UNCHANGED <<loggerInstance, mtx, objs, first, tmp, logger, calls, failures>>

\* One step of thread t (user1Logs / user2Logs), the allocation succeeding.
Step(t) ==
  \/ Start(t)
  \/ Check1(t)
  \/ Lock(t)
  \/ Check2(t)
  \/ Alloc(t)
  \/ Ctor1(t)
  \/ Ctor2(t)
  \/ EarlyStore(t)
  \/ Store(t)
  \/ Unlock(t)
  \/ Return(t)
  \/ Log1(t)
  \/ Log2(t)

Next == \E t \in Threads : Step(t)

NextFail == \E t \in Threads : Step(t) \/ AllocFail(t)

\* The threads of user.cpp:16-17, with an allocation that never fails.
Spec == Init /\ [][Next]_vars

\* The same, where operator new may raise.
SpecFail == Init /\ [][NextFail]_vars

\* Native threads: a thread that can take a step eventually takes one.
FairSpec == Spec /\ \A t \in Threads : WF_vars(Step(t))

FairSpecFail == SpecFail /\ \A t \in Threads : WF_vars(Step(t) \/ AllocFail(t))

(***************************************************************************)
(* Derived quantities.                                                     *)
(***************************************************************************)

\* The statements of getLogger() after the first read (logger.cpp:18-24).
InAccessor(t) ==
  pc[t] \in {"lock", "check2", "new", "ctor1", "ctor2", "store", "unlock", "ret"}

\* The statements between mtx.lock() and mtx.unlock() (logger.cpp:19-22).
InCritical(t) ==
  pc[t] \in {"check2", "new", "ctor1", "ctor2", "store", "unlock"}

\* The thread has got a handle back from getLogger().
HasHandle(t) == logger[t] # NoHandle

\* Times the body of Logger::Logger() has been entered (the construction counter).
ConstructionCount == Cardinality({i \in DOMAIN objs : objs[i] # "raw"})

\* Constructors that have run to their end.
SuccessfulConstructions == Cardinality({i \in DOMAIN objs : objs[i] = "constructed"})

\* Every thread has made its calls of getLogger() and is back from the last one.
AllReturned ==
  \A t \in Threads : calls[t] = MaxCalls /\ pc[t] \in {"log1", "log2", "idle"}

\* Every thread has made its calls of getLogger() and of Log() and is back.
AllDone ==
  \A t \in Threads : calls[t] = MaxCalls /\ pc[t] = "idle"

\* The insertion at place i of std::cout is the message of some thread.
IsMessage(i) == \E t \in Threads : out[i] = Message(t)

\* The insertion at place i of std::cout is a line of its own.
OwnLine(i) ==
  /\ i = 1 \/ out[i - 1] = LineBreak
  /\ i < Len(out)
  /\ out[i + 1] = LineBreak

(***************************************************************************)
(* The claims.                                                             *)
(***************************************************************************)

\* C1: under every interleaving of the steps of the threads that call
\* getLogger(), the Logger constructor is never entered more than once, and it
\* has been entered exactly once when all the threads have returned.
SingleConstruction ==
  /\ ConstructionCount <= 1
  /\ AllReturned => ConstructionCount = 1

\* C1 witness: all threads have returned, and every one of them found the slot
\* empty at its first read (they all went for the lock).
SingleConstructionWitness ==
  /\ AllReturned
  /\ \A t \in Threads : first[t] = Null
  /\ ConstructionCount = 1

NoPartialVisibility ==
  \A t \in Threads :
    (HasHandle(t) /\ logger[t] # Null) => objs[logger[t]] = "constructed"

\* C4 (as claimed): when a call of getLogger() has ended with the exception of
\* a failed construction, the mutex is not held by the failed caller and the
\* slot is empty.
FailureReleasesLock ==
  \A t \in Threads : pc[t] = "thrown" => (mtx # t /\ loggerInstance = Null)

\* C5 (as claimed): after a failed construction some later call of getLogger()
\* returns a valid handle, exactly one construction having succeeded.
RetryAfterFailure ==
  (failures > 0) ~>
     (/\ \E t \in Threads : HasHandle(t) /\ logger[t] # Null
      /\ SuccessfulConstructions = 1)

\* C6 (as claimed): when no thread is inside Log(), every message written to
\* std::cout is a line of its own.  The claim is about the calls of Log()
\* among themselves: the outputs where a call of Log() ran into the line of the
\* constructor are left out.
MessagesIntact ==
  (/\ \A t \in Threads : pc[t] # "log2"
   /\ \A i \in DOMAIN out : out[i] = CreatedText => OwnLine(i)) =>
     \A i \in DOMAIN out : IsMessage(i) => OwnLine(i)

\* C7: a handle returned by getLogger() is never null.
NeverNull ==
  \A t \in Threads : HasHandle(t) => logger[t] # Null

\* C7 witness: a thread that skipped the lock (its first read found the slot
\* filled) has got a handle.
NeverNullWitness ==
  \E t \in Threads : HasHandle(t) /\ first[t] # Null /\ pc[t] = "log1"

\* C8: every thread gets through all its calls of getLogger() (and of Log()):
\* each call returns, so each thread that waits for the mutex gets it, the only
\* way past mtx.lock() being to own the mutex; and the mutex is free whenever
\* no thread is between lock() and unlock().
NoDeadlock ==
  /\ <>AllDone
  /\ [][\A t \in Threads : (pc[t] = "lock" /\ pc'[t] # "lock") => mtx' = t]_vars
  /\ []((\A t \in Threads : ~InCritical(t)) => mtx = Free)

\* C8 witness: a thread waits for the mutex while another thread holds it.
NoDeadlockWitness ==
  \E t, u \in Threads : pc[t] = "lock" /\ mtx = u /\ u # t

\* C9: a thread that is past its first read and found the slot filled is at the
\* return statement, which it can take whatever the other threads do, and does
\* not hold the mutex; a thread whose first read will find the slot filled can
\* take that read.
FastPath ==
  \A t \in Threads :
    /\ (InAccessor(t) /\ first[t] # Null) =>
          (pc[t] = "ret" /\ mtx # t /\ ENABLED Return(t))
    /\ (pc[t] = "check1" /\ loggerInstance # Null) => ENABLED Check1(t)

\* C9 witness: a thread is on the fast path while another thread holds the mutex.
FastPathWitness ==
  \E t, u \in Threads :
    /\ pc[t] = "ret" /\ first[t] # Null
    /\ u # t /\ mtx = u

\* C10: the slot starts empty, and once it holds a reference no step changes it.
WriteOnce ==
  /\ loggerInstance = Null
  /\ [][loggerInstance # Null => loggerInstance' = loggerInstance]_vars

\* C10 witness: the slot is filled, a thread has gone through getLogger() and
\* Log() after that, and the slot still holds the only object.
WriteOnceWitness ==
  /\ loggerInstance = 1
  /\ \E t \in Threads : first[t] # Null /\ pc[t] = "idle" /\ calls[t] = MaxCalls

====
